---- MODULE Spec2Model ----
(***************************************************************************)
(* A model of the dvln/api package: the three process-wide message         *)
(* accumulators (api.go), the JSON escaper, the formatter switch, the      *)
(* hand-built fallback fragment and the output builder (json.go).          *)
(*                                                                         *)
(* Texts are sequences of byte values (0..255).  An optional value (a nil  *)
(* interface{}, an omitted JSON field) is a set with at most one element.  *)
(***************************************************************************)
EXTENDS Integers, Sequences, FiniteSets, TLC

VARIABLES
    storedFatalError,       \* api.go: var storedFatalError Msg
    storedNonFatalWarning,  \* api.go: var storedNonFatalWarning Msg
    storedNote,             \* api.go: var storedNote Msg
    jsonRaw,                \* json.go: var jsonRaw
    jsonIndentLevel,        \* json.go: var jsonIndentLevel
    jsonPrefix,             \* json.go: var jsonPrefix
    ret,                    \* the call just made, with what it returned
    warnHist,               \* history: the non-empty texts passed to SetStoredNonFatalWarning
    noteHist,               \* history: the non-empty texts passed to SetStoredNote
    ctrl,                   \* the byte slice handed to EscapeJSONString
    esc,                    \* what EscapeJSONString returned for ctrl, if it was called
    pc,                     \* where each concurrent producer stands in its setter call
    call,                   \* the setter and the arguments of each concurrent producer
    local,                  \* the Msg each concurrent producer built from what it read
    serialized              \* whether the host lets one producer at a time into a setter

\* the formatter's settings other than jsonRaw
fmtVars ==
    <<jsonIndentLevel, jsonPrefix>>

\* the concurrent producers
raceVars ==
    <<pc, call, local, serialized>>

vars ==
    <<storedFatalError, storedNonFatalWarning, storedNote, jsonRaw, ret,
      warnHist, noteHist, ctrl, esc, fmtVars, raceVars>>

(***************************************************************************)
(* Bounds of the model.                                                    *)
(***************************************************************************)
\* longest text a warning / note slot is let to grow to
MaxText == 2
\* most items handed to GetJSONOutput
MaxItems == 2
\* most append steps used to build an input of EscapeJSONString
MaxCtrl == 3

(***************************************************************************)
(* api.go: Msg and NewMsg                                                  *)
(***************************************************************************)
NewMsg(msg, code, level) ==
    [Message |-> msg, Code |-> code, Level |-> level]

\* the zero value of Msg
ZeroMsg ==
    NewMsg(<<>>, 0, "")

\* the variadic defCode: <<>> when no default is supplied, <<d>> otherwise
DefaultCode(defCode) ==
    IF defCode # <<>> THEN defCode[1] ELSE 0

\* ret before any call was made
NoCall ==
    [op |-> "none"]

\* ret after a setter: the call that was made (setters return nothing)
SetterCall(name, msg, defCode) ==
    [op |-> name, msg |-> msg, defCode |-> defCode]

(***************************************************************************)
(* json.go: EscapeJSONString                                               *)
(***************************************************************************)
\* one digit of encoding/hex's table "0123456789abcdef", as a byte
HexDigit(n) ==
    IF n < 10 THEN 48 + n ELSE 87 + n

\* hex.Encode(dst, ctrl[i:i+1]): the two hex digits of one byte
HexEncode(b) ==
    <<HexDigit(b \div 16), HexDigit(b % 16)>>

\* u := []byte(`\u0000`)
U0000 ==
    <<92, 117, 48, 48, 48, 48>>

\* the bytes EscapeJSONString replaces
NeedsEscape(ch) ==
    ch <= 31 \/ ch = 34

\* mutant: the bytes before the first escaped one are not copied
EscapeStep_noPrefix(c, i, e) ==
    IF NeedsEscape(c[i])
    THEN LET started == IF e = {} THEN <<>> ELSE CHOOSE x \in e : TRUE
             withU == started \o U0000
         IN  {SubSeq(withU, 1, Len(withU) - 2) \o HexEncode(c[i])}
    ELSE IF e # {} THEN {Append(CHOOSE x \in e : TRUE, c[i])} ELSE e

\* esc after the byte at index i was handled; e is {} while esc is nil
EscapeStep(c, i, e) ==
    IF NeedsEscape(c[i])
    THEN LET started == IF e = {} THEN SubSeq(c, 1, i - 1) ELSE CHOOSE x \in e : TRUE
             withU == started \o U0000
         IN  {SubSeq(withU, 1, Len(withU) - 2) \o HexEncode(c[i])}
    ELSE IF e # {} THEN {Append(CHOOSE x \in e : TRUE, c[i])} ELSE e

\* the loop over ctrl, from index i on
RECURSIVE EscapeLoop(_, _, _)
EscapeLoop(c, i, e) ==
    IF i > Len(c) THEN e
    ELSE LET next == EscapeStep(c, i, e)
         IN  IF next = {} THEN EscapeLoop(c, i + 1, {}) ELSE EscapeLoop(c, i + 1, next)

EscapeJSONString(c) ==
    LET e == EscapeLoop(c, 1, {})
    IN  IF e = {} THEN c ELSE CHOOSE x \in e : TRUE

\* Msg with its text escaped, as GetJSONOutput prepares the latched messages
EscapedMsg(m) ==
    [m EXCEPT !.Message = EscapeJSONString(m.Message)]

(***************************************************************************)
(* api.go: the three setters                                               *)
(***************************************************************************)
\* mutant: storing a fatal error also drops the latched warning
SetStoredFatalError_clobber(msg) ==
    /\ storedFatalError' = msg
    /\ storedNonFatalWarning' = ZeroMsg
    /\ ret' = SetterCall("SetStoredFatalError", msg, <<>>)
    /\ UNCHANGED <<storedNote, jsonRaw, warnHist, noteHist, ctrl, esc,
                   fmtVars, raceVars>>

SetStoredFatalError(msg) ==
    /\ storedFatalError' = msg
    /\ ret' = SetterCall("SetStoredFatalError", msg, <<>>)
    /\ UNCHANGED <<storedNonFatalWarning, storedNote, jsonRaw, warnHist, noteHist,
                   ctrl, esc, fmtVars, raceVars>>

\* mutant: the old text is put before the new text
WarningToStore_oldFirst(msg, defCode) ==
    LET defaultCode == DefaultCode(defCode)
        old == storedNonFatalWarning
    IN  IF old.Message # <<>>
        THEN [msg EXCEPT
                !.Message = old.Message \o msg.Message,
                !.Code = IF (msg.Code = 0 \/ msg.Code = defaultCode)
                            /\ ~(old.Code = 0 \/ old.Code = defaultCode)
                         THEN old.Code
                         ELSE msg.Code]
        ELSE msg

\* mutant: the old code is kept whenever the new one is unset or the default
WarningToStore_keepOld(msg, defCode) ==
    LET defaultCode == DefaultCode(defCode)
        old == storedNonFatalWarning
    IN  IF old.Message # <<>>
        THEN [msg EXCEPT
                !.Message = msg.Message \o old.Message,
                !.Code = IF msg.Code = 0 \/ msg.Code = defaultCode
                         THEN old.Code
                         ELSE msg.Code]
        ELSE msg

\* mutant: a message with empty text is ignored
WarningToStore_ignoreEmpty(msg, defCode) ==
    LET defaultCode == DefaultCode(defCode)
        old == storedNonFatalWarning
    IN  IF msg.Message = <<>> THEN old
        ELSE IF old.Message # <<>>
        THEN [msg EXCEPT
                !.Message = msg.Message \o old.Message,
                !.Code = IF (msg.Code = 0 \/ msg.Code = defaultCode)
                            /\ ~(old.Code = 0 \/ old.Code = defaultCode)
                         THEN old.Code
                         ELSE msg.Code]
        ELSE msg

\* mutant: the old text is dropped
WarningToStore_overwrite(msg, defCode) ==
    msg

\* the message SetStoredNonFatalWarning stores: new text before the old text,
\* and the old code kept when the new one is unset or the default and the old
\* one is neither
WarningToStore(msg, defCode) ==
    LET defaultCode == DefaultCode(defCode)
        old == storedNonFatalWarning
    IN  IF old.Message # <<>>
        THEN [msg EXCEPT
                !.Message = msg.Message \o old.Message,
                !.Code = IF (msg.Code = 0 \/ msg.Code = defaultCode)
                            /\ ~(old.Code = 0 \/ old.Code = defaultCode)
                         THEN old.Code
                         ELSE msg.Code]
        ELSE msg

SetStoredNonFatalWarning(msg, defCode) ==
    /\ Len(WarningToStore(msg, defCode).Message) <= MaxText
    /\ storedNonFatalWarning' = WarningToStore(msg, defCode)
    /\ warnHist' = IF msg.Message # <<>> THEN Append(warnHist, msg.Message)
                   ELSE warnHist
    /\ ret' = SetterCall("SetStoredNonFatalWarning", msg, defCode)
    /\ UNCHANGED <<storedFatalError, storedNote, jsonRaw, noteHist, ctrl, esc,
                   fmtVars, raceVars>>

NoteToStore(msg, defCode) ==
    LET defaultCode == DefaultCode(defCode)
        old == storedNote
    IN  IF old.Message # <<>>
        THEN [msg EXCEPT
                !.Message = msg.Message \o old.Message,
                !.Code = IF (msg.Code = 0 \/ msg.Code = defaultCode)
                            /\ ~(old.Code = 0 \/ old.Code = defaultCode)
                         THEN old.Code
                         ELSE msg.Code]
        ELSE msg

SetStoredNote(msg, defCode) ==
    /\ Len(NoteToStore(msg, defCode).Message) <= MaxText
    /\ storedNote' = NoteToStore(msg, defCode)
    /\ noteHist' = IF msg.Message # <<>> THEN Append(noteHist, msg.Message)
                   ELSE noteHist
    /\ ret' = SetterCall("SetStoredNote", msg, defCode)
    /\ UNCHANGED <<storedFatalError, storedNonFatalWarning, jsonRaw, warnHist,
                   ctrl, esc, fmtVars, raceVars>>

(***************************************************************************)
(* The texts json.go writes, as bytes.                                     *)
(***************************************************************************)
\* "No valid JSON API version is available"
NoVersionText ==
    <<78, 111, 32, 118, 97, 108, 105, 100, 32, 74, 83, 79, 78, 32, 65, 80, 73, 32,
      118, 101, 114, 115, 105, 111, 110, 32, 105, 115, 32, 97, 118, 97, 105, 108,
      97, 98, 108, 101>>

\* "Unable to marshal basic JSON API string"
MarshalFailText ==
    <<85, 110, 97, 98, 108, 101, 32, 116, 111, 32, 109, 97, 114, 115, 104, 97, 108,
      32, 98, 97, 115, 105, 99, 32, 74, 83, 79, 78, 32, 65, 80, 73, 32, 115, 116,
      114, 105, 110, 103>>

\* "Unable to beautify JSON output: "
BeautifyPrefix ==
    <<85, 110, 97, 98, 108, 101, 32, 116, 111, 32, 98, 101, 97, 117, 116, 105, 102,
      121, 32, 74, 83, 79, 78, 32, 111, 117, 116, 112, 117, 116, 58, 32>>

\* the %s of that text, the error of json.Indent: "exceeded max depth"
IndentErrText ==
    <<101, 120, 99, 101, 101, 100, 101, 100, 32, 109, 97, 120, 32, 100, 101, 112,
      116, 104>>

\* "Unknown Fatal Error (Coding Error?)"
UnknownFatalText ==
    <<85, 110, 107, 110, 111, 119, 110, 32, 70, 97, 116, 97, 108, 32, 69, 114, 114,
      111, 114, 32, 40, 67, 111, 100, 105, 110, 103, 32, 69, 114, 114, 111, 114,
      63, 41>>

(***************************************************************************)
(* api.go: the result root and its data section                            *)
(***************************************************************************)
\* var rootData apiData, with the version and the context set; ID is 0 and
\* the four interface{} fields are nil
newAPIData(apiVersion, context) ==
    [APIVersion |-> apiVersion, Context |-> context, ID |-> 0,
     Note |-> {}, Warning |-> {}, Error |-> {}, Data |-> {}]

SetAPIItems(r, kind, verbosity, fields, items) ==
    [r EXCEPT !.Data = {[Kind |-> kind, Verbosity |-> verbosity, Fields |-> fields,
                         TotalItems |-> Len(items), StartIndex |-> 1,
                         CurrentItemCount |-> Len(items), Items |-> items]}]

(***************************************************************************)
(* encoding/json as json.go uses it.  An item is an opaque value; what the *)
(* encoder and the indenter do with it depends on its kind:                *)
(*   "val"    an encodable value                                           *)
(*   "chan"   a value of an unsupported type: Marshal fails                *)
(*   "flaky"  a json.Marshaler that fails from its second call on          *)
(*   "deep"   a value nested deeper than the scanner accepts: Marshal      *)
(*            encodes it, Indent rejects the encoding                      *)
(***************************************************************************)
Range(f) ==
    {f[i] : i \in DOMAIN f}

\* a field tagged omitempty: left out when it holds its zero value
OmitEmpty(v, zero) ==
    IF v = zero THEN {} ELSE {v}

\* Msg as encoded: message always, code and level omitempty
WireMsg(m) ==
    [message |-> m.Message, code |-> OmitEmpty(m.Code, 0), level |-> OmitEmpty(m.Level, "")]

\* jsonData as encoded: every field omitempty
WireData(d) ==
    [kind |-> OmitEmpty(d.Kind, ""), verbosity |-> OmitEmpty(d.Verbosity, ""),
     fields |-> OmitEmpty(d.Fields, <<>>), totalItems |-> OmitEmpty(d.TotalItems, 0),
     startIndex |-> OmitEmpty(d.StartIndex, 0),
     currentItemCount |-> OmitEmpty(d.CurrentItemCount, 0),
     items |-> OmitEmpty(d.Items, <<>>)]

\* apiData as encoded: the document json.Marshal writes
WireRoot(r) ==
    [apiVersion |-> r.APIVersion, context |-> OmitEmpty(r.Context, ""), id |-> r.ID,
     note |-> {WireMsg(m) : m \in r.Note}, warning |-> {WireMsg(m) : m \in r.Warning},
     error |-> {WireMsg(m) : m \in r.Error}, data |-> {WireData(d) : d \in r.Data}]

\* the items of a root's data section
RootItems(r) ==
    UNION {Range(d.Items) : d \in r.Data}

\* json.Marshal(apiRoot), the attempt-th call made on this root's items:
\* err, and the encoded bytes j (src tells the document from a hand-built
\* fragment, indentable whether json.Indent accepts the bytes)
Marshal(r, attempt) ==
    IF "chan" \in RootItems(r) \/ (attempt >= 2 /\ "flaky" \in RootItems(r))
    THEN [err |-> TRUE, j |-> {}]
    ELSE [err |-> FALSE,
          j |-> {[src |-> "marshal", doc |-> WireRoot(r),
                  indentable |-> "deep" \notin RootItems(r)]}]

(***************************************************************************)
(* json.go: PrettyJSON.  Its output is the text (form "verbatim": the      *)
(* bytes as they are; form "indented": json.Indent's output and a newline) *)
(***************************************************************************)
Verbatim(b) ==
    [form |-> "verbatim", text |-> b]

\* str.Pad("", " ", n): n spaces
Pad(n) ==
    [i \in 1..n |-> 32]

\* json.Indent of b with a prefix and an indent, and the newline appended to
\* it; on an error json.Indent leaves nothing in the buffer
Indented(b, prefix, indent) ==
    IF b.indentable
    THEN [output |-> [form |-> "indented", text |-> b, prefix |-> prefix,
                      indent |-> indent],
          err |-> FALSE]
    ELSE [output |-> [form |-> "indented", text |-> {}, prefix |-> <<>>,
                      indent |-> <<>>],
          err |-> TRUE]

\* PrettyJSON without the test of jsonRaw
PrettyJSON_ignoreRaw(b, fmt) ==
    Indented(b, IF Len(fmt) \in {1, 2} THEN fmt[1] ELSE jsonPrefix,
             IF Len(fmt) = 2 THEN fmt[2] ELSE Pad(jsonIndentLevel))

\* fmt holds the optional arguments: none, a prefix, or a prefix and an indent
PrettyJSON(b, fmt) ==
    IF jsonRaw
    THEN [output |-> Verbatim(b), err |-> FALSE]
    ELSE LET prefix == IF Len(fmt) \in {1, 2} THEN fmt[1] ELSE jsonPrefix
             indent == IF Len(fmt) = 2 THEN fmt[2] ELSE Pad(jsonIndentLevel)
         IN  Indented(b, prefix, indent)

(***************************************************************************)
(* json.go: the hand-built fallback fragment                               *)
(***************************************************************************)
IsHexDigit(b) ==
    (b >= 48 /\ b <= 57) \/ (b >= 97 /\ b <= 102) \/ (b >= 65 /\ b <= 70)

\* whether the bytes from index i on are the inside of a JSON string literal
RECURSIVE JSONStringBody(_, _)
JSONStringBody(t, i) ==
    IF i > Len(t) THEN TRUE
    ELSE IF t[i] <= 31 \/ t[i] = 34 THEN FALSE
    ELSE IF t[i] # 92 THEN JSONStringBody(t, i + 1)
    ELSE IF i + 1 > Len(t) THEN FALSE
    ELSE IF t[i + 1] \in {34, 92, 47, 98, 102, 110, 114, 116} THEN JSONStringBody(t, i + 2)
    ELSE IF t[i + 1] = 117 /\ i + 5 <= Len(t)
            /\ \A k \in 2..5 : IsHexDigit(t[i + k])
         THEN JSONStringBody(t, i + 6)
         ELSE FALSE

\* encodeMsgInRawJSON: "" (here {}) for an empty message, else the text
\* "<flavor>": { "message": "<escaped>", "code": <n>, "level": "<level>"}
encodeMsgInRawJSON(flavor, msg) ==
    IF msg.Message = <<>> THEN {}
    ELSE {[flavor |-> flavor, message |-> EscapeJSONString(msg.Message),
           code |-> msg.Code, level |-> msg.Level]}

\* the member of the fragment with this flavor, as a field of the document
FragmentField(frags, flavor) ==
    {[message |-> f.message, code |-> {f.code}, level |-> {f.level}] :
        f \in {g \in frags : g.flavor = flavor}}

\* The fragment is one JSON object when every spliced message is the inside
\* of a string literal (the versions and levels used here are plain text);
\* PrettyJSON is tried on it and the fragment is returned as it is on error.
FatalJSONMsg(apiVer, errMsg) ==
    LET noteMsgJSON == encodeMsgInRawJSON("note", storedNote)
        warnMsgJSON == encodeMsgInRawJSON("warning", storedNonFatalWarning)
        errMsgJSON1 == encodeMsgInRawJSON("error", errMsg)
        errMsgJSON2 == IF errMsgJSON1 = {}
                       THEN encodeMsgInRawJSON("error", storedFatalError)
                       ELSE errMsgJSON1
        errMsgJSON == IF errMsgJSON2 = {}
                      THEN encodeMsgInRawJSON("error",
                               NewMsg(UnknownFatalText, 0, "UNKNOWN"))
                      ELSE errMsgJSON2
        msgs == noteMsgJSON \cup warnMsgJSON \cup errMsgJSON
        cmdError == -1
        rawJSON == [src |-> "fragment",
                    doc |-> [apiVersion |-> apiVer, context |-> {}, id |-> cmdError,
                             note |-> FragmentField(msgs, "note"),
                             warning |-> FragmentField(msgs, "warning"),
                             error |-> FragmentField(msgs, "error"),
                             data |-> {}],
                    indentable |-> \A f \in msgs : JSONStringBody(f.message, 1)]
        pretty == PrettyJSON(rawJSON, <<>>)
    IN  IF pretty.err THEN Verbatim(rawJSON) ELSE pretty.output

(***************************************************************************)
(* json.go: GetJSONOutput                                                  *)
(***************************************************************************)
\* lines 181-191: the version, and the error raised when there is none
ResolveVersion(apiVer, env) ==
    IF apiVer # "" THEN [apiVer |-> apiVer, errMsg |-> ZeroMsg, fatalErr |-> FALSE]
    ELSE IF env # "" THEN [apiVer |-> env, errMsg |-> ZeroMsg, fatalErr |-> FALSE]
    ELSE [apiVer |-> "?.?", errMsg |-> NewMsg(NoVersionText, 1001, "FATAL"),
          fatalErr |-> TRUE]

\* lines 193-198: the latched fatal error becomes the error when none is set
AdoptStoredFatalError(v) ==
    IF v.errMsg.Message = <<>> /\ storedFatalError.Message # <<>>
    THEN [v EXCEPT !.errMsg = EscapedMsg(storedFatalError), !.fatalErr = TRUE]
    ELSE v

\* lines 199-208: the latched warning / note carried forward
CarriedMsg(stored) ==
    IF stored.Message # <<>> THEN EscapedMsg(stored) ELSE ZeroMsg

\* mutant: the error is attached but the id is left at 0
PopulateRoot_noID(apiRoot, errMsg, warnMsg, noteMsg, kind, verbosity, fields, items) ==
    IF errMsg.Message = <<>>
    THEN LET r == SetAPIItems(apiRoot, kind, verbosity, fields, items)
         IN  [r EXCEPT !.Warning = IF warnMsg.Message # <<>> THEN {warnMsg} ELSE @,
                       !.Note = IF noteMsg.Message # <<>> THEN {noteMsg} ELSE @]
    ELSE [apiRoot EXCEPT !.Error = {errMsg}]

\* lines 209-224: the data section and the carried messages, or the error
PopulateRoot(apiRoot, errMsg, warnMsg, noteMsg, kind, verbosity, fields, items) ==
    IF errMsg.Message = <<>>
    THEN LET r == SetAPIItems(apiRoot, kind, verbosity, fields, items)
         IN  [r EXCEPT !.Warning = IF warnMsg.Message # <<>> THEN {warnMsg} ELSE @,
                       !.Note = IF noteMsg.Message # <<>> THEN {noteMsg} ELSE @]
    ELSE [apiRoot EXCEPT !.ID = -1, !.Error = {errMsg}]

\* lines 225-236: the first json.Marshal failed
MarshalFailed(v, root) ==
    LET unset == v.errMsg.Message = <<>>
        errMsg == IF unset THEN NewMsg(MarshalFailText, 1002, "FATAL") ELSE v.errMsg
        fatalErr == IF unset THEN TRUE ELSE v.fatalErr
    IN  [output |-> FatalJSONMsg(v.apiVer, errMsg), fatalErr |-> fatalErr,
         root |-> root, marshalErr |-> <<TRUE>>, prettyErr |-> <<>>]

\* mutant: a warning already in the root is kept
PrettyFailed_keepWarning(v, root) ==
    LET warnMsg == NewMsg(BeautifyPrefix \o IndentErrText, 1003, "ISSUE")
        root2 == IF root.Warning # {} THEN root
                 ELSE [root EXCEPT !.Warning = {warnMsg}]
        m2 == Marshal(root2, 2)
    IN  IF m2.err
        THEN [output |-> FatalJSONMsg(v.apiVer, [warnMsg EXCEPT !.Level = "FATAL"]),
              fatalErr |-> TRUE,
              root |-> root2, marshalErr |-> <<FALSE, TRUE>>, prettyErr |-> <<TRUE>>]
        ELSE LET j == CHOOSE b \in m2.j : TRUE
                 p2 == PrettyJSON(j, <<>>)
             IN  [output |-> IF p2.err THEN Verbatim(j) ELSE p2.output,
                  fatalErr |-> v.fatalErr,
                  root |-> root2, marshalErr |-> <<FALSE, FALSE>>,
                  prettyErr |-> <<TRUE, p2.err>>]

\* lines 240-260: PrettyJSON failed on the first encoding
PrettyFailed(v, root) ==
    LET warnMsg == NewMsg(BeautifyPrefix \o IndentErrText, 1003, "ISSUE")
        root2 == [root EXCEPT !.Warning = {warnMsg}]
        m2 == Marshal(root2, 2)
    IN  IF m2.err
        THEN [output |-> FatalJSONMsg(v.apiVer, [warnMsg EXCEPT !.Level = "FATAL"]),
              fatalErr |-> TRUE,
              root |-> root2, marshalErr |-> <<FALSE, TRUE>>, prettyErr |-> <<TRUE>>]
        ELSE LET j == CHOOSE b \in m2.j : TRUE
                 p2 == PrettyJSON(j, <<>>)
             IN  [output |-> IF p2.err THEN Verbatim(j) ELSE p2.output,
                  fatalErr |-> v.fatalErr,
                  root |-> root2, marshalErr |-> <<FALSE, FALSE>>,
                  prettyErr |-> <<TRUE, p2.err>>]

\* the whole call: output and fatalErr as returned, with the root as it was
\* left and the outcome of every Marshal and PrettyJSON call made on it
GetJSONOutputResult(apiVer, env, context, kind, verbosity, fields, items) ==
    LET v == AdoptStoredFatalError(ResolveVersion(apiVer, env))
        warnMsg == CarriedMsg(storedNonFatalWarning)
        noteMsg == CarriedMsg(storedNote)
        apiRoot == PopulateRoot(newAPIData(v.apiVer, context), v.errMsg, warnMsg,
                                noteMsg, kind, verbosity, fields, items)
        m1 == Marshal(apiRoot, 1)
    IN  IF m1.err THEN MarshalFailed(v, apiRoot)
        ELSE LET p1 == PrettyJSON(CHOOSE b \in m1.j : TRUE, <<>>)
             IN  IF p1.err THEN PrettyFailed(v, apiRoot)
                 ELSE [output |-> p1.output, fatalErr |-> v.fatalErr,
                       root |-> apiRoot, marshalErr |-> <<FALSE>>,
                       prettyErr |-> <<FALSE>>]

GetJSONOutput(apiVer, env, context, kind, verbosity, fields, items) ==
    /\ ret' = [op |-> "GetJSONOutput", apiVer |-> apiVer, env |-> env,
               context |-> context, kind |-> kind, verbosity |-> verbosity,
               fields |-> fields, items |-> items,
               result |-> GetJSONOutputResult(apiVer, env, context, kind, verbosity,
                                              fields, items)]
    /\ UNCHANGED <<storedFatalError, storedNonFatalWarning, storedNote, jsonRaw,
                   warnHist, noteHist, ctrl, esc, fmtVars, raceVars>>

\* a direct call of the exported FatalJSONMsg
CallFatalJSONMsg(apiVer, errMsg) ==
    /\ ret' = [op |-> "FatalJSONMsg", apiVer |-> apiVer, msg |-> errMsg,
               output |-> FatalJSONMsg(apiVer, errMsg)]
    /\ UNCHANGED <<storedFatalError, storedNonFatalWarning, storedNote, jsonRaw,
                   warnHist, noteHist, ctrl, esc, fmtVars, raceVars>>

SetJSONIndentLevel(level) ==
    /\ jsonIndentLevel' = level
    /\ ret' = [op |-> "SetJSONIndentLevel", level |-> level]
    /\ UNCHANGED <<storedFatalError, storedNonFatalWarning, storedNote, jsonRaw,
                   jsonPrefix, warnHist, noteHist, ctrl, esc, raceVars>>

SetJSONPrefix(pfx) ==
    /\ jsonPrefix' = pfx
    /\ ret' = [op |-> "SetJSONPrefix", pfx |-> pfx]
    /\ UNCHANGED <<storedFatalError, storedNonFatalWarning, storedNote, jsonRaw,
                   jsonIndentLevel, warnHist, noteHist, ctrl, esc, raceVars>>

\* a direct call of the exported PrettyJSON
CallPrettyJSON(b, fmt) ==
    /\ ret' = [op |-> "PrettyJSON", b |-> b, fmt |-> fmt,
               result |-> PrettyJSON(b, fmt)]
    /\ UNCHANGED <<storedFatalError, storedNonFatalWarning, storedNote, jsonRaw,
                   warnHist, noteHist, ctrl, esc, fmtVars, raceVars>>

SetJSONRaw(b) ==
    /\ jsonRaw' = b
    /\ ret' = [op |-> "SetJSONRaw", b |-> b]
    /\ UNCHANGED <<storedFatalError, storedNonFatalWarning, storedNote,
                   warnHist, noteHist, ctrl, esc, fmtVars, raceVars>>

(***************************************************************************)
(* The state at process start.                                             *)
(***************************************************************************)
\* the goroutines that may call the setters at the same time
Producers == {1, 2}

\* the package variables as their declarations initialise them, no call made
ProcessStart ==
    /\ storedFatalError = ZeroMsg
    /\ storedNonFatalWarning = ZeroMsg
    /\ storedNote = ZeroMsg
    /\ jsonRaw = FALSE
    /\ jsonIndentLevel = 2
    /\ jsonPrefix = <<>>
    /\ ret = NoCall
    /\ warnHist = <<>>
    /\ noteHist = <<>>
    /\ ctrl = <<>>
    /\ esc = {}
    /\ pc = [p \in Producers |-> "idle"]
    /\ call = [p \in Producers |-> NoCall]
    /\ local = [p \in Producers |-> ZeroMsg]

Init ==
    /\ ProcessStart
    /\ serialized = FALSE

(***************************************************************************)
(* Spec: a host program latching messages, switching raw mode and building *)
(* its output, in any order.                                               *)
(***************************************************************************)
Versions == {"", "1.0"}
\* the values of the environment variable PKG_API_APIVER
EnvVersions == {"", "2.0"}
Contexts == {"", "dvlnGlobs"}

\* n encodable values
Vals(n) ==
    [i \in 1..n |-> "val"]

\* item lists holding values that make the encoder or the indenter fail
Troubles == {<<"chan">>, <<"val", "deep">>, <<"flaky">>, <<"deep", "flaky">>}

ItemLists ==
    {Vals(n) : n \in 0..MaxItems} \cup {t \in Troubles : Len(t) <= MaxItems}

MainFatalMsgs == {ZeroMsg, NewMsg(<<69, 34>>, 5, "FATAL"), NewMsg(<<92>>, 0, "FATAL")}
MainWarnMsgs == {NewMsg(<<>>, 0, "WARN"), NewMsg(<<10>>, 7, "WARN")}
MainNoteMsgs == {NewMsg(<<>>, 0, "NOTE"), NewMsg(<<78>>, 0, "NOTE")}
MainErrMsgs == {ZeroMsg, NewMsg(<<69>>, 3, "FATAL")}

MainFatal ==
    \E msg \in MainFatalMsgs : SetStoredFatalError(msg)

MainWarning ==
    \E msg \in MainWarnMsgs : SetStoredNonFatalWarning(msg, <<>>)

MainNote ==
    \E msg \in MainNoteMsgs : SetStoredNote(msg, <<>>)

MainRaw ==
    \E b \in BOOLEAN : SetJSONRaw(b)

MainOutput ==
    \E apiVer \in Versions, env \in EnvVersions, context \in Contexts,
       items \in ItemLists :
        GetJSONOutput(apiVer, env, context, "env", "", <<"key", "value">>, items)

MainFallback ==
    \E errMsg \in MainErrMsgs : CallFatalJSONMsg("1.0", errMsg)

Next ==
    \/ MainFatal
    \/ MainWarning
    \/ MainNote
    \/ MainRaw
    \/ MainOutput
    \/ MainFallback

Spec ==
    Init /\ [][Next]_vars

(***************************************************************************)
(* SpecAcc: producers calling the setters with every combination of text,  *)
(* code, level and default code.                                           *)
(***************************************************************************)
AccTexts == {<<>>, <<65>>, <<66>>}
AccCodes == {0, 7, 9}
AccMsgs == {NewMsg(t, c, "WARN") : t \in AccTexts, c \in AccCodes}
AccFatalMsgs == {NewMsg(t, 5, "FATAL") : t \in {<<>>, <<69, 34>>}}
DefCodes == {<<>>, <<7>>}

AccFatal ==
    \E msg \in AccFatalMsgs : SetStoredFatalError(msg)

AccWarning ==
    \E msg \in AccMsgs, defCode \in DefCodes : SetStoredNonFatalWarning(msg, defCode)

AccNote ==
    \E msg \in AccMsgs, defCode \in DefCodes : SetStoredNote(msg, defCode)

NextAcc ==
    \/ AccFatal
    \/ AccWarning
    \/ AccNote

SpecAcc ==
    Init /\ [][NextAcc]_vars

(***************************************************************************)
(* SpecEsc: EscapeJSONString applied to byte slices built from single      *)
(* bytes (control bytes, the quote, the backslash, ordinary and high       *)
(* bytes) and from text that already looks like an escape sequence.        *)
(***************************************************************************)
EscBytes == {0, 10, 31, 32, 34, 65, 92, 255}

\* the six characters A, as they may occur literally in a message
LiteralEscape ==
    <<92, 117, 48, 48, 52, 49>>

EscTokens == {<<b>> : b \in EscBytes} \cup {LiteralEscape}

\* the caller builds the slice piece by piece
ExtendCtrl ==
    /\ Len(ctrl) < MaxCtrl
    /\ \E tok \in EscTokens : ctrl' = ctrl \o tok
    /\ esc' = {}
    /\ UNCHANGED <<storedFatalError, storedNonFatalWarning, storedNote, jsonRaw,
                   ret, warnHist, noteHist, fmtVars, raceVars>>

\* the call EscapeJSONString(ctrl)
CallEscape ==
    /\ esc' = {EscapeJSONString(ctrl)}
    /\ UNCHANGED <<storedFatalError, storedNonFatalWarning, storedNote, jsonRaw,
                   ret, warnHist, noteHist, ctrl, fmtVars, raceVars>>

NextEsc ==
    \/ ExtendCtrl
    \/ CallEscape

SpecEsc ==
    Init /\ [][NextEsc]_vars

(***************************************************************************)
(* SpecFmt: a host changing the formatter's settings and calling           *)
(* PrettyJSON on its own bytes, well formed or not, with and without the   *)
(* optional arguments.                                                     *)
(***************************************************************************)
\* the texts {} and [], which json.Indent accepts
WellFormedTexts == {<<123, 125>>, <<91, 93>>}

\* bytes handed in by the caller
CallerBytes(t) ==
    [src |-> "caller", doc |-> t, indentable |-> t \in WellFormedTexts]

\* {} and [], the unfinished text { and no text at all
FmtInputs == {CallerBytes(t) : t \in WellFormedTexts \cup {<<123>>, <<>>}}

\* no optional argument, a prefix, a prefix and an indent (a tab)
FmtArgs == {<<>>, << <<62>> >>, << <<62>>, <<9>> >>}
IndentLevels == {0, 2, 4}
Prefixes == {<<>>, <<35>>}

FmtRaw ==
    \E b \in BOOLEAN : SetJSONRaw(b)

FmtIndentLevel ==
    \E level \in IndentLevels : SetJSONIndentLevel(level)

FmtPrefix ==
    \E pfx \in Prefixes : SetJSONPrefix(pfx)

FmtCall ==
    \E b \in FmtInputs, fmt \in FmtArgs : CallPrettyJSON(b, fmt)

NextFmt ==
    \/ FmtRaw
    \/ FmtIndentLevel
    \/ FmtPrefix
    \/ FmtCall

SpecFmt ==
    Init /\ [][NextFmt]_vars

(***************************************************************************)
(* SpecRace: two goroutines each calling SetStoredNonFatalWarning or       *)
(* SetStoredNote once.  Nothing in the setters orders them, so a call is   *)
(* three steps that interleave with the other goroutine's: it is entered,  *)
(* it reads the slot and builds msg from it, it writes msg to the slot.    *)
(* When the host serializes access, a call is entered only while no other  *)
(* call is under way.                                                      *)
(***************************************************************************)
RaceSetters == {"SetStoredNonFatalWarning", "SetStoredNote"}
RaceMsgs == {NewMsg(<<65>>, 0, "WARN"), NewMsg(<<66>>, 9, "WARN")}

InitRace ==
    /\ ProcessStart
    /\ serialized \in BOOLEAN

\* the call is made: the arguments are on the goroutine's stack
RaceEnter(p) ==
    /\ pc[p] = "idle"
    /\ serialized => \A q \in Producers : pc[q] \in {"idle", "done"}
    /\ \E setter \in RaceSetters, msg \in RaceMsgs :
          call' = [call EXCEPT ![p] = SetterCall(setter, msg, <<>>)]
    /\ pc' = [pc EXCEPT ![p] = "read"]
    /\ UNCHANGED <<storedFatalError, storedNonFatalWarning, storedNote, jsonRaw,
                   ret, warnHist, noteHist, ctrl, esc, fmtVars, local, serialized>>

\* api.go lines 74-85 / 98-109: msg is built from the slot as it is now
RaceRead(p) ==
    /\ pc[p] = "read"
    /\ local' = [local EXCEPT ![p] =
                    IF call[p].op = "SetStoredNonFatalWarning"
                    THEN WarningToStore(call[p].msg, call[p].defCode)
                    ELSE NoteToStore(call[p].msg, call[p].defCode)]
    /\ pc' = [pc EXCEPT ![p] = "write"]
    /\ UNCHANGED <<storedFatalError, storedNonFatalWarning, storedNote, jsonRaw,
                   ret, warnHist, noteHist, ctrl, esc, fmtVars, call, serialized>>

\* api.go line 86 / 110: msg is assigned to the slot
RaceWrite(p) ==
    /\ pc[p] = "write"
    /\ IF call[p].op = "SetStoredNonFatalWarning"
       THEN storedNonFatalWarning' = local[p] /\ UNCHANGED storedNote
       ELSE storedNote' = local[p] /\ UNCHANGED storedNonFatalWarning
    /\ pc' = [pc EXCEPT ![p] = "done"]
    /\ UNCHANGED <<storedFatalError, jsonRaw, ret, warnHist, noteHist, ctrl, esc,
                   fmtVars, call, local, serialized>>

RaceEnterAny ==
    \E p \in Producers : RaceEnter(p)

RaceReadAny ==
    \E p \in Producers : RaceRead(p)

RaceWriteAny ==
    \E p \in Producers : RaceWrite(p)

NextRace ==
    \/ RaceEnterAny
    \/ RaceReadAny
    \/ RaceWriteAny

SpecRace ==
    InitRace /\ [][NextRace]_vars

(***************************************************************************)
(* Properties.                                                             *)
(***************************************************************************)
\* the documents returned by the call just made
ReturnedPayloads ==
    IF ret.op = "GetJSONOutput" THEN {ret.result.output.text.doc}
    ELSE IF ret.op = "FatalJSONMsg" THEN {ret.output.text.doc}
    ELSE {}

\* an error was attached to the root, or a json.Marshal attempt failed
ErrorOrMarshalFailure ==
    ret.result.root.Error # {} \/ TRUE \in Range(ret.result.marshalErr)

\* C1: the boolean GetJSONOutput returns is a success flag: false exactly
\* when an error was attached to the root or a json.Marshal attempt failed,
\* true otherwise.
C1_SuccessFlag ==
    ret.op = "GetJSONOutput" =>
        (ret.result.fatalErr = FALSE <=> ErrorOrMarshalFailure)

\* What the code returns instead: the boolean is true exactly when an error
\* was attached to the root or a json.Marshal attempt failed.
FatalFlagAsCoded ==
    ret.op = "GetJSONOutput" =>
        (ret.result.fatalErr = TRUE <=> ErrorOrMarshalFailure)

\* C2: in every payload returned, on every path, id is -1 if and only if an
\* error object is present, and id is 0 otherwise.
C2_IdIffError ==
    \A p \in ReturnedPayloads :
        /\ p.id = -1 <=> p.error # {}
        /\ p.error = {} => p.id = 0

\* C2 witness: GetJSONOutput returned the fallback fragment, with id -1 and
\* an error object.
C2_Witness ==
    /\ ret.op = "GetJSONOutput"
    /\ ret.result.output.text.src = "fragment"
    /\ ret.result.output.text.doc.id = -1
    /\ ret.result.output.text.doc.error # {}

\* the payload half of C3: with a latched fatal error the payload has id -1
\* and an error object and no data section, and no payload has both an
\* error object and a data section
LatchedFatalPayload ==
    \A p \in ReturnedPayloads :
        /\ (ret.op = "GetJSONOutput" /\ storedFatalError.Message # <<>>)
              => (p.id = -1 /\ p.error # {} /\ p.data = {})
        /\ ~(p.error # {} /\ p.data # {})

\* C3: with a latched fatal error GetJSONOutput reports failure (the success
\* flag of C1 is false) and the payload has id -1, an error object and no
\* data section, whatever the items; no payload has both an error object
\* and a data section.
C3_LatchedFatalWins ==
    /\ LatchedFatalPayload
    /\ (ret.op = "GetJSONOutput" /\ storedFatalError.Message # <<>>)
          => ret.result.fatalErr = FALSE

\* the error object of the missing-version error, as encoded
NoVersionError ==
    [message |-> NoVersionText, code |-> {1001}, level |-> {"FATAL"}]

\* the payload half of C4: the version is the argument, else the environment
\* variable, else "?.?" with the 1001 error, which a latched fatal error does
\* not replace; the latched fatal error is the error when the version resolved
VersionResolutionPayload ==
    ret.op = "GetJSONOutput" =>
        LET p == ret.result.output.text.doc
        IN  /\ ret.apiVer # "" => p.apiVersion = ret.apiVer
            /\ (ret.apiVer = "" /\ ret.env # "") => p.apiVersion = ret.env
            /\ (ret.apiVer = "" /\ ret.env = "") =>
                  (p.apiVersion = "?.?" /\ p.error = {NoVersionError} /\ p.id = -1)
            /\ ((ret.apiVer # "" \/ ret.env # "") /\ storedFatalError.Message # <<>>) =>
                  \A e \in p.error :
                      e.message = EscapeJSONString(storedFatalError.Message)

\* C4: the version is the argument, else PKG_API_APIVER, else "?.?" with an
\* error of code 1001 and level FATAL, id -1 and failure reported (the
\* success flag of C1 is false); the 1001 error wins over a latched fatal error.
C4_VersionResolution ==
    /\ VersionResolutionPayload
    /\ (ret.op = "GetJSONOutput" /\ ret.apiVer = "" /\ ret.env = "")
          => ret.result.fatalErr = FALSE

\* the texts of a history, newest first, with nothing between them
RECURSIVE NewestFirst(_)
NewestFirst(h) ==
    IF h = <<>> THEN <<>> ELSE NewestFirst(Tail(h)) \o Head(h)

\* C5: after SetStoredNonFatalWarning calls with non-empty texts m1 .. mn the
\* latched warning text is mn ++ ... ++ m1; the same for SetStoredNote.
C5_NewestFirst ==
    /\ storedNonFatalWarning.Message = NewestFirst(warnHist)
    /\ storedNote.Message = NewestFirst(noteHist)

\* C5 witness: "A" then "B" were latched as a warning and as a note, and
\* both slots hold "BA".
C5_Witness ==
    /\ warnHist = << <<65>>, <<66>> >>
    /\ storedNonFatalWarning.Message = <<66, 65>>
    /\ noteHist = << <<65>>, <<66>> >>
    /\ storedNote.Message = <<66, 65>>

\* the code C6 says is stored over a slot that holds text
MergedCode(new, default, old) ==
    IF (new = 0 \/ new = default) /\ old # 0 /\ old # default THEN old ELSE new

\* C6: a warning / note latched over a slot that holds text gets the old
\* code iff the new code is 0 or the default and the old code is neither;
\* otherwise the new code.  The default is 0 when none is supplied.
C6_CodeMerge ==
    [][/\ (ret'.op = "SetStoredNonFatalWarning" /\ storedNonFatalWarning.Message # <<>>)
            => storedNonFatalWarning'.Code =
                   MergedCode(ret'.msg.Code,
                              IF ret'.defCode = <<>> THEN 0 ELSE ret'.defCode[1],
                              storedNonFatalWarning.Code)
       /\ (ret'.op = "SetStoredNote" /\ storedNote.Message # <<>>)
            => storedNote'.Code =
                   MergedCode(ret'.msg.Code,
                              IF ret'.defCode = <<>> THEN 0 ELSE ret'.defCode[1],
                              storedNote.Code)]_vars

\* C6 witness: a second warning with the default code 7 was latched over one
\* with code 9, and the slot holds code 9.
C6_Witness ==
    /\ ret.op = "SetStoredNonFatalWarning"
    /\ ret.msg.Code = 7
    /\ ret.defCode = <<7>>
    /\ Len(warnHist) = 2
    /\ storedNonFatalWarning.Code = 9

\* C7 as stated: a setter called with an empty text leaves its slot unchanged.
C7_EmptyTextNoOp ==
    [][/\ (ret'.op = "SetStoredFatalError" /\ ret'.msg.Message = <<>>)
            => storedFatalError' = storedFatalError
       /\ (ret'.op = "SetStoredNonFatalWarning" /\ ret'.msg.Message = <<>>)
            => storedNonFatalWarning' = storedNonFatalWarning
       /\ (ret'.op = "SetStoredNote" /\ ret'.msg.Message = <<>>)
            => storedNote' = storedNote]_vars

\* C7 as amended: with an empty text SetStoredFatalError overwrites the fatal
\* slot with its argument (the latched text is gone); SetStoredNonFatalWarning
\* and SetStoredNote keep the latched text, take the level of the argument,
\* and take its code unless the slot held text with a more specific code.
C7_EmptyTextEffect ==
    [][/\ (ret'.op = "SetStoredFatalError" /\ ret'.msg.Message = <<>>)
            => storedFatalError' = ret'.msg
       /\ (ret'.op = "SetStoredNonFatalWarning" /\ ret'.msg.Message = <<>>)
            => /\ storedNonFatalWarning'.Message = storedNonFatalWarning.Message
               /\ storedNonFatalWarning'.Level = ret'.msg.Level
               /\ storedNonFatalWarning'.Code =
                      IF storedNonFatalWarning.Message = <<>> THEN ret'.msg.Code
                      ELSE MergedCode(ret'.msg.Code,
                                      IF ret'.defCode = <<>> THEN 0 ELSE ret'.defCode[1],
                                      storedNonFatalWarning.Code)
       /\ (ret'.op = "SetStoredNote" /\ ret'.msg.Message = <<>>)
            => /\ storedNote'.Message = storedNote.Message
               /\ storedNote'.Level = ret'.msg.Level
               /\ storedNote'.Code =
                      IF storedNote.Message = <<>> THEN ret'.msg.Code
                      ELSE MergedCode(ret'.msg.Code,
                                      IF ret'.defCode = <<>> THEN 0 ELSE ret'.defCode[1],
                                      storedNote.Code)]_vars

\* C7 witness: a warning with empty text and code 9 was latched over the
\* warning "A": the text is still "A" and the code is 9.
C7_Witness ==
    /\ ret.op = "SetStoredNonFatalWarning"
    /\ ret.msg.Message = <<>>
    /\ ret.msg.Code = 9
    /\ warnHist = << <<65>> >>
    /\ storedNonFatalWarning = NewMsg(<<65>>, 9, "WARN")

\* C8: SetStoredFatalError stores exactly its argument and touches no other
\* slot, SetStoredNonFatalWarning and SetStoredNote each touch their slot
\* only, GetJSONOutput and FatalJSONMsg touch none; so GetJSONOutput called
\* again with the same arguments and environment returns what it returned.
C8_SlotFrame ==
    /\ [][/\ ret'.op = "SetStoredFatalError"
                => /\ storedFatalError' = ret'.msg
                   /\ UNCHANGED <<storedNonFatalWarning, storedNote>>
          /\ ret'.op = "SetStoredNonFatalWarning"
                => UNCHANGED <<storedFatalError, storedNote>>
          /\ ret'.op = "SetStoredNote"
                => UNCHANGED <<storedFatalError, storedNonFatalWarning>>
          /\ ret'.op \in {"GetJSONOutput", "FatalJSONMsg"}
                => UNCHANGED <<storedFatalError, storedNonFatalWarning, storedNote>>]_vars
    /\ [](ret.op = "GetJSONOutput" =>
            ret.result = GetJSONOutputResult(ret.apiVer, ret.env, ret.context, ret.kind,
                                             ret.verbosity, ret.fields, ret.items))

\* C8 witness: GetJSONOutput returned while all three slots held text.
C8_Witness ==
    /\ ret.op = "GetJSONOutput"
    /\ storedFatalError.Message # <<>>
    /\ storedNonFatalWarning.Message # <<>>
    /\ storedNote.Message # <<>>

\* the value of a hex digit
HexValue(b) ==
    IF b <= 57 THEN b - 48 ELSE IF b <= 70 THEN b - 55 ELSE b - 87

\* t from index i on, with every \u00XX replaced by the byte XX
RECURSIVE DecodeU00(_, _)
DecodeU00(t, i) ==
    IF i > Len(t) THEN <<>>
    ELSE IF /\ i + 5 <= Len(t)
            /\ SubSeq(t, i, i + 3) = <<92, 117, 48, 48>>
            /\ IsHexDigit(t[i + 4]) /\ IsHexDigit(t[i + 5])
         THEN <<16 * HexValue(t[i + 4]) + HexValue(t[i + 5])>> \o DecodeU00(t, i + 6)
         ELSE <<t[i]>> \o DecodeU00(t, i + 1)

\* a control byte or the double quote
IsSpecial(b) ==
    b <= 31 \/ b = 34

\* C9: for every m holding control or quote bytes, EscapeJSONString(m) holds
\* no raw control byte and no raw quote, and decoding its \u00XX sequences
\* gives back m.
C9_RoundTrip ==
    \A r \in esc :
        (\E i \in DOMAIN ctrl : IsSpecial(ctrl[i])) =>
            /\ \A i \in DOMAIN r : ~IsSpecial(r[i])
            /\ DecodeU00(r, 1) = ctrl

\* the half of C9 the code keeps: the result holds no raw control byte and
\* no raw quote
NoRawSpecial ==
    \A r \in esc : \A i \in DOMAIN r : ~IsSpecial(r[i])

\* the digits of base 16, lowercase, as bytes
HexTable ==
    <<48, 49, 50, 51, 52, 53, 54, 55, 56, 57, 97, 98, 99, 100, 101, 102>>

\* the reference map of one byte
RefByte(b) ==
    IF IsSpecial(b)
    THEN <<92, 117, 48, 48, HexTable[(b \div 16) + 1], HexTable[(b % 16) + 1]>>
    ELSE <<b>>

RECURSIVE RefEscape(_)
RefEscape(m) ==
    IF m = <<>> THEN <<>> ELSE RefByte(Head(m)) \o RefEscape(Tail(m))

\* C10: EscapeJSONString is the byte-wise map: a byte <= 31 or 34 becomes
\* \u00 and its two lowercase hex digits, every other byte is copied, in
\* order; the length grows by 5 per escaped byte; with nothing to escape
\* the result is the input.
C10_ReferenceMap ==
    \A r \in esc :
        /\ r = RefEscape(ctrl)
        /\ Len(r) = Len(ctrl) + 5 * Cardinality({i \in DOMAIN ctrl : IsSpecial(ctrl[i])})
        /\ (\A i \in DOMAIN ctrl : ~IsSpecial(ctrl[i])) => r = ctrl

\* C10 witness: the bytes A, quote, A were escaped to A, \u0022, A.
C10_Witness ==
    /\ ctrl = <<65, 34, 65>>
    /\ esc = {<<65, 92, 117, 48, 48, 50, 50, 65>>}

\* the fragments FatalJSONMsg returned to the call just made, whether it was
\* called directly or by GetJSONOutput
ReturnedFragments ==
    IF ret.op = "GetJSONOutput"
    THEN {f \in {ret.result.output.text} : f.src = "fragment"}
    ELSE IF ret.op = "FatalJSONMsg" THEN {ret.output.text}
    ELSE {}

\* every fragment has the version handed in, id -1 and an error object
FragmentShape ==
    /\ \A f \in ReturnedFragments : f.doc.id = -1 /\ f.doc.error # {}
    /\ ret.op = "FatalJSONMsg" => ret.output.text.doc.apiVersion = ret.apiVer

\* C11: FatalJSONMsg always returns a well-formed JSON fragment, one JSON
\* object with apiVersion, id -1 and an error object, whatever the version,
\* the error message and the contents of the accumulators, texts with
\* backslashes or quotes included.
C11_FragmentWellFormed ==
    /\ FragmentShape
    /\ \A f \in ReturnedFragments : f.indentable

\* the texts of one optional message of a payload
PayloadTexts(field) ==
    {m.message : m \in field}

\* C12: on the structured path the error, warning and note texts placed in
\* the root are the latched texts unmodified: the message decoded from a
\* successfully encoded payload equals the latched text byte for byte (the
\* only other texts a payload can hold are the ones GetJSONOutput raises
\* itself: no version, formatting failure).
C12_TextsUnmodified ==
    ret.op = "GetJSONOutput" =>
        \A doc \in {d \in ReturnedPayloads : ret.result.output.text.src = "marshal"} :
            /\ PayloadTexts(doc.error) \subseteq {storedFatalError.Message, NoVersionText}
            /\ PayloadTexts(doc.warning) \subseteq
                    {storedNonFatalWarning.Message, BeautifyPrefix \o IndentErrText}
            /\ PayloadTexts(doc.note) \subseteq {storedNote.Message}

\* what the code does instead: the texts in the root are the escaped texts
C12_TextsEscaped ==
    ret.op = "GetJSONOutput" =>
        \A doc \in {d \in ReturnedPayloads : ret.result.output.text.src = "marshal"} :
            /\ PayloadTexts(doc.error) \subseteq
                    {EscapeJSONString(storedFatalError.Message), NoVersionText}
            /\ PayloadTexts(doc.warning) \subseteq
                    {EscapeJSONString(storedNonFatalWarning.Message),
                     BeautifyPrefix \o IndentErrText}
            /\ PayloadTexts(doc.note) \subseteq
                    {EscapeJSONString(storedNote.Message)}

\* C13: in raw mode PrettyJSON returns its input bytes as text, unchanged,
\* with a nil error, for every input, well formed or not, whatever the
\* indent level, the prefix and the optional arguments.
C13_RawVerbatim ==
    ret.op = "PrettyJSON" /\ jsonRaw =>
        /\ ret.result.err = FALSE
        /\ ret.result.output.form = "verbatim"
        /\ ret.result.output.text = ret.b

\* C13 witness: in raw mode, with an indent level of 4 and a prefix set,
\* PrettyJSON was handed the unfinished text { with a prefix and an indent
\* and returned that text with no error.
C13_Witness ==
    /\ ret.op = "PrettyJSON"
    /\ jsonRaw
    /\ jsonIndentLevel = 4
    /\ jsonPrefix # <<>>
    /\ ret.b.doc = <<123>>
    /\ Len(ret.fmt) = 2
    /\ ret.result = [output |-> [form |-> "verbatim", text |-> ret.b], err |-> FALSE]

\* outside raw mode the same calls go through json.Indent: the prefix and
\* the indent are the optional arguments when given, the settings otherwise
FormattedOtherwise ==
    ret.op = "PrettyJSON" /\ ~jsonRaw =>
        /\ ret.result.err = ~ret.b.indentable
        /\ ret.result.output.form = "indented"
        /\ ret.b.indentable /\ ret.fmt = <<>> =>
              /\ ret.result.output.prefix = jsonPrefix
              /\ Len(ret.result.output.indent) = jsonIndentLevel

\* the boolean GetJSONOutput returned, which C1 reads as a success flag
ReturnedFlag ==
    ret.result.fatalErr

\* an omitempty number as a reader decodes it: an absent field is zero
FieldOrZero(f) ==
    IF f = {} THEN 0 ELSE CHOOSE x \in f : TRUE

\* the case of C14: GetJSONOutput was called with a version that resolves
\* and an empty fatal accumulator, and no json.Marshal attempt failed
PlainSuccessCase ==
    /\ ret.op = "GetJSONOutput"
    /\ ret.apiVer # "" \/ ret.env # ""
    /\ storedFatalError.Message = <<>>
    /\ TRUE \notin Range(ret.result.marshalErr)

\* id 0, no error, a data section counting the items from index 1
PlainSuccessPayload(p) ==
    /\ p.id = 0
    /\ p.error = {}
    /\ Cardinality(p.data) = 1
    /\ \A d \in p.data :
          /\ FieldOrZero(d.totalItems) = Len(ret.items)
          /\ FieldOrZero(d.currentItemCount) = Len(ret.items)
          /\ d.startIndex = {1}

\* C14: with a version that resolves, an empty fatal accumulator and the
\* encoding succeeding, GetJSONOutput reports success (the success flag of
\* C1 is true) and the payload has id 0, no error, a data section with
\* totalItems = currentItemCount = len(items) and startIndex = 1, a warning
\* exactly when the warning accumulator holds text and a note exactly when
\* the note accumulator holds text.
C14_PlainSuccess ==
    PlainSuccessCase =>
        /\ ReturnedFlag = TRUE
        /\ \A p \in ReturnedPayloads :
              /\ PlainSuccessPayload(p)
              /\ p.warning # {} <=> storedNonFatalWarning.Message # <<>>
              /\ p.note # {} <=> storedNote.Message # <<>>

\* what holds of the payload in that case: as C14 says, but a warning is
\* also present when the formatting failed (the 1003 warning of C15), and
\* the returned boolean is false
PlainSuccessAsCoded ==
    PlainSuccessCase =>
        /\ ReturnedFlag = FALSE
        /\ \A p \in ReturnedPayloads :
              /\ PlainSuccessPayload(p)
              /\ p.warning # {} <=> (\/ storedNonFatalWarning.Message # <<>>
                                      \/ ret.result.prettyErr[1])
              /\ p.note # {} <=> storedNote.Message # <<>>

\* the warning GetJSONOutput raises when the formatting fails
BeautifyWarning ==
    NewMsg(BeautifyPrefix \o IndentErrText, 1003, "ISSUE")

\* the case of C15: the first json.Marshal succeeded and PrettyJSON failed
FormatFailedCase ==
    /\ ret.op = "GetJSONOutput"
    /\ ret.result.marshalErr[1] = FALSE
    /\ ret.result.prettyErr[1] = TRUE

\* the payload half of C15; flagOnSuccess and flagOnFailure are the values
\* of the returned boolean on the two ways out
FormatFailure(flagOnSuccess, flagOnFailure) ==
    FormatFailedCase =>
        LET r == ret.result
        IN  /\ r.root.Warning = {BeautifyWarning}
            /\ Len(r.marshalErr) = 2
            /\ (r.marshalErr[2] = FALSE /\ r.prettyErr[2] = TRUE) =>
                  /\ r.output.form = "verbatim"
                  /\ r.output.text.src = "marshal"
                  /\ r.output.text.doc = WireRoot(r.root)
                  /\ r.root.Error = {} => ReturnedFlag = flagOnSuccess
            /\ r.marshalErr[2] = TRUE =>
                  /\ r.output.text.src = "fragment"
                  /\ r.output.text.doc.error =
                        {[message |-> EscapeJSONString(BeautifyWarning.Message),
                          code |-> {1003}, level |-> {"FATAL"}]}
                  /\ ReturnedFlag = flagOnFailure

\* C15: when the first encoding succeeds and the formatting fails, a
\* warning of code 1003 and level ISSUE is attached and the root encoded
\* again; if that succeeds and the second formatting fails, the second
\* encoding is returned unformatted and success is still reported (the
\* success flag of C1 is true) when no error is attached; if the second
\* encoding fails, the warning becomes the error of the FatalJSONMsg
\* fragment with level FATAL and failure is reported (the flag is false).
C15_FormatFailure ==
    FormatFailure(TRUE, FALSE)

\* what the code returns: the same payloads, the boolean the other way round
FormatFailureAsCoded ==
    FormatFailure(FALSE, TRUE)

\* a Msg as FatalJSONMsg writes it into the fragment
FragmentMsg(m) ==
    [message |-> EscapeJSONString(m.Message), code |-> {m.Code}, level |-> {m.Level}]

\* the payload half of C16; flag is the value of the returned boolean
FirstEncodingFailure(flag) ==
    (ret.op = "GetJSONOutput" /\ ret.result.marshalErr[1] = TRUE) =>
        LET r == ret.result
        IN  /\ r.output.text.src = "fragment"
            /\ ReturnedFlag = flag
            /\ r.root.Error = {} =>
                  r.output.text.doc.error =
                      {FragmentMsg(NewMsg(MarshalFailText, 1002, "FATAL"))}
            /\ r.root.Error # {} =>
                  r.output.text.doc.error = {FragmentMsg(m) : m \in r.root.Error}

\* C16: when the first encoding fails GetJSONOutput returns the FatalJSONMsg
\* fragment and reports failure (the success flag of C1 is false); the error
\* in the fragment is the error already active if there is one, and a
\* synthesized error of code 1002 and level FATAL otherwise; the 1002 error
\* never replaces an active error.
C16_FirstEncodingFailure ==
    FirstEncodingFailure(FALSE)

\* what the code returns: the same fragment, the boolean true
FirstEncodingFailureAsCoded ==
    FirstEncodingFailure(TRUE)

\* an error in the root and a failing json.Marshal do not meet: a root with
\* an error has no data section, and only items make the encoder fail
NoEncodingFailureWithError ==
    ret.op = "GetJSONOutput" =>
        ~(ret.result.root.Error # {} /\ TRUE \in Range(ret.result.marshalErr))

\* the slot a setter writes
SlotOf(setter) ==
    IF setter = "SetStoredNonFatalWarning" THEN storedNonFatalWarning ELSE storedNote

\* both producers have returned from their calls
BothDone ==
    \A p \in Producers : pc[p] = "done"

\* C17: nothing orders two concurrent calls of SetStoredNonFatalWarning (or
\* of SetStoredNote): the final text of the slot holds the text of the
\* producer that wrote last, with or without the other producer's text
\* after it; when the host serializes the calls the final text always
\* holds both texts, the later call's first.  Producers of different slots
\* do not disturb each other.
C17_LostUpdate ==
    BothDone =>
        LET t1 == call[1].msg.Message
            t2 == call[2].msg.Message
        IN  IF call[1].op = call[2].op
            THEN /\ SlotOf(call[1].op).Message \in {t1, t2, t1 \o t2, t2 \o t1}
                 /\ serialized => SlotOf(call[1].op).Message \in {t1 \o t2, t2 \o t1}
            ELSE /\ SlotOf(call[1].op).Message = t1
                 /\ SlotOf(call[2].op).Message = t2

\* C17 witness: with no serialization the two producers handed the texts A
\* and B to SetStoredNonFatalWarning and the slot ends up holding B alone:
\* the text A is lost.
C17_Witness ==
    /\ BothDone
    /\ ~serialized
    /\ call[1].op = "SetStoredNonFatalWarning"
    /\ call[2].op = "SetStoredNonFatalWarning"
    /\ call[1].msg.Message = <<65>>
    /\ call[2].msg.Message = <<66>>
    /\ storedNonFatalWarning.Message = <<66>>

\* C18: when the formatting fails after a successful first encoding, the
\* 1003 warning replaces the latched warning carried in the root: the
\* warning of the returned payload holds only the formatting-failure text,
\* code and level, and the latched warning's text is no longer in the
\* payload.
C18_WarningReplaced ==
    FormatFailedCase =>
        \A p \in ReturnedPayloads : p.warning = {WireMsg(BeautifyWarning)}

\* C18 as amended: the 1003 warning replaces the carried warning in the
\* root; when the second encoding succeeds the payload's warning is the
\* 1003 warning alone; when it fails the fallback fragment is built from
\* the accumulators again, so its warning is the latched warning (none if
\* nothing is latched) and the 1003 text is its error, with level FATAL.
C18_WarningReplacedIfReencoded ==
    FormatFailedCase =>
        LET r == ret.result
        IN  /\ r.root.Warning = {BeautifyWarning}
            /\ \A p \in ReturnedPayloads :
                  /\ r.marshalErr[2] = FALSE => p.warning = {WireMsg(BeautifyWarning)}
                  /\ r.marshalErr[2] = TRUE =>
                        /\ p.warning = IF storedNonFatalWarning.Message = <<>> THEN {}
                                       ELSE {FragmentMsg(storedNonFatalWarning)}
                        /\ p.error =
                              {FragmentMsg([BeautifyWarning EXCEPT !.Level = "FATAL"])}

\* C18 witness: a warning was latched, the formatting failed, the second
\* encoding succeeded and the payload's warning is the 1003 warning alone.
C18_Witness ==
    /\ FormatFailedCase
    /\ storedNonFatalWarning.Message # <<>>
    /\ ret.result.marshalErr[2] = FALSE
    /\ ret.result.output.text.doc.warning = {WireMsg(BeautifyWarning)}

====
